---------------------------- MODULE Spec2Model ----------------------------
(***************************************************************************)
(* The entries hook of the dream journal (useEntries): the in-memory list  *)
(* of entries, the asynchronous operations on it, and the rows of the     *)
(* remote store they read and write.                                       *)
(*                                                                         *)
(* Every remote call is two steps: the store executes the request (or     *)
(* rejects it), and later the awaiting code resumes with the answer.      *)
(* Calls of different invocations interleave freely between those steps.  *)
(*                                                                         *)
(* The callbacks that snapshot the list close over the `entries` of the   *)
(* render that created them (useCallback with [entries]); the model takes *)
(* a render to follow every state change before the next invocation, so   *)
(* the closed-over list is the current one.                                *)
(*                                                                         *)
(* The hook modelled is the revision with the optimistic toggleReaction    *)
(* and the userReaction of fetchEntries; the revision before it has the    *)
(* same createEntry, updateEntry, deleteEntry, addComment and              *)
(* deleteComment, and a toggleReaction with the same remote read and       *)
(* write.                                                                  *)
(***************************************************************************)
EXTENDS Integers, Sequences, FiniteSets, TLC

(* ------------------------------ bounds -------------------------------- *)

\* invocations after the fetch that the mount effect starts
MaxOps == 2

\* largest reaction count drawn for the stand-alone check of the toggle table
MaxCount == 3

(* ------------------------------ values -------------------------------- *)

\* a column the insert did not set, and a missing maybeSingle() row
NULL == -1

Viewer == "u1"
OtherUser == "u2"
NoUser == "null"

EntryIds == {1, 2}
ReactionTypes == {"love", "hate"}
UserReactions == {"love", "hate", "none"}
Titles == {"", "T"}
\* text and userId of the comments added
CommentArgs == {<<"c", Viewer>>, <<"", Viewer>>, <<"c", NoUser>>}

\* ids and created_at of the rows the store holds before the hook mounts
FirstFreeId == 6

\* a key that a Partial<Pick<Entry, ...>> does not carry
Undefined == "undefined"

NoUpdates == [title |-> Undefined, text |-> Undefined]

\* the updates passed to updateEntry: two titles and a text
Updates == {[title |-> "A", text |-> Undefined],
            [title |-> "B", text |-> Undefined],
            [title |-> Undefined, text |-> "d"]}

VARIABLES
    entries,      \* useState<Entry[]>: the local list
    loading,      \* useState(true)
    error,        \* useState<FetchError | null>: TRUE when a fetch error is set
    ops,          \* the invocations so far, in invocation order
    rEntries,     \* remote table "entries"
    rActions,     \* remote table "entry_actions"
    rComments,    \* remote table "comments"
    rSeq,         \* the store's next id / created_at
    tEntry,       \* stand-alone table check: the entry before the toggle
    tType,        \* stand-alone table check: the requested kind
    tOut,         \* stand-alone table check: the entry after the toggle
    isEditing,    \* the card of entry 1: useState(false), edit mode
    isSavingEdit, \* the card of entry 1: useState(false), a save is under way
    editCall      \* the card of entry 1: the updateEntry call handleUpdate awaits

vars == <<entries, loading, error, ops, rEntries, rActions, rComments, rSeq,
          tEntry, tType, tOut, isEditing, isSavingEdit, editCall>>
engine == <<entries, loading, error, ops, rEntries, rActions, rComments, rSeq>>
table == <<tEntry, tType, tOut>>
card == <<isEditing, isSavingEdit, editCall>>
remote == <<rEntries, rActions, rComments, rSeq>>

(* --------------------------- pure helpers ----------------------------- *)

\* the decrement without its floor
Max0NoFloor(x) == x

\* Math.max(0, x)
Max0(x) == IF x > 0 THEN x ELSE 0

\* x || 0 on a count column
OrZero(x) == IF x = NULL THEN 0 ELSE x

OtherType(t) == IF t = "love" THEN "hate" ELSE "love"

CountOf(e, t) == IF t = "love" THEN e.love_count ELSE e.hate_count

WithCount(e, t, n) ==
    IF t = "love" THEN [e EXCEPT !.love_count = n] ELSE [e EXCEPT !.hate_count = n]

\* prev.map(f)
MapSeq(s, F(_)) == [i \in 1..Len(s) |-> F(s[i])]

\* prev.filter(p)
FilterSeq(s, P(_)) == SelectSeq(s, P)

\* rows ordered by created_at, newest first
RECURSIVE SortDesc(_)
SortDesc(S) ==
    IF S = {} THEN <<>>
    ELSE LET m == CHOOSE x \in S : \A y \in S : y.created_at <= x.created_at
         IN <<m>> \o SortDesc(S \ {m})

RECURSIVE SumOf(_, _)
SumOf(S, t) ==
    IF S = {} THEN 0
    ELSE LET r == CHOOSE x \in S : TRUE
         IN OrZero(CountOf(r, t)) + SumOf(S \ {r}, t)

Ids(s) == {s[i].id : i \in 1..Len(s)}

Find(s, id) == s[CHOOSE i \in 1..Len(s) : s[i].id = id]

(* ------------------------ the toggle transition ----------------------- *)

\* the updater without the test for the opposite reaction: every change of
\* reaction takes one off the opposite count
ToggleEntryAlwaysSwitch(entry, reactionType) ==
    LET otherType == OtherType(reactionType) IN
    IF entry.userReaction = reactionType
    THEN [WithCount(entry, reactionType, CountOf(entry, reactionType) - 1)
            EXCEPT !.userReaction = "none"]
    ELSE [WithCount(WithCount(entry, otherType, CountOf(entry, otherType) - 1),
                    reactionType, CountOf(entry, reactionType) + 1)
            EXCEPT !.userReaction = reactionType]

\* the updater that clears the reaction and leaves its count
ToggleEntryKeepCount(entry, reactionType) ==
    LET otherType == OtherType(reactionType) IN
    IF entry.userReaction = reactionType
    THEN [entry EXCEPT !.userReaction = "none"]
    ELSE IF entry.userReaction = otherType
    THEN [WithCount(WithCount(entry, otherType, Max0(CountOf(entry, otherType) - 1)),
                    reactionType, CountOf(entry, reactionType) + 1)
            EXCEPT !.userReaction = reactionType]
    ELSE [WithCount(entry, reactionType, CountOf(entry, reactionType) + 1)
            EXCEPT !.userReaction = reactionType]

\* the updater that sets the reaction and leaves the counts
ToggleEntryReactionOnly(entry, reactionType) ==
    IF entry.userReaction = reactionType
    THEN [entry EXCEPT !.userReaction = "none"]
    ELSE [entry EXCEPT !.userReaction = reactionType]

\* the updater of the optimistic setEntries, for the entry it targets
ToggleEntry(entry, reactionType) ==
    LET otherType == OtherType(reactionType) IN
    IF entry.userReaction = reactionType
    THEN [WithCount(entry, reactionType, Max0(CountOf(entry, reactionType) - 1))
            EXCEPT !.userReaction = "none"]
    ELSE IF entry.userReaction = otherType
    THEN [WithCount(WithCount(entry, otherType, Max0(CountOf(entry, otherType) - 1)),
                    reactionType, CountOf(entry, reactionType) + 1)
            EXCEPT !.userReaction = reactionType]
    ELSE [WithCount(entry, reactionType, CountOf(entry, reactionType) + 1)
            EXCEPT !.userReaction = reactionType]

\* the transition applied to every entry of the list
OptimisticToggleAll(prev, entryId, reactionType) ==
    LET F(e) == ToggleEntry(e, reactionType)
    IN MapSeq(prev, F)

\* no optimistic update: the list waits for the store
OptimisticToggleNone(prev, entryId, reactionType) == prev

\* prev.map(entry => entry.id !== entryId ? entry : ...)
OptimisticToggle(prev, entryId, reactionType) ==
    LET F(e) == IF e.id # entryId THEN e ELSE ToggleEntry(e, reactionType)
    IN MapSeq(prev, F)

\* the update that sets the requested column to 1 whatever it was
ReactionUpdateAlwaysSet(existingAction, reactionType) ==
    WithCount(WithCount(existingAction, reactionType, 1), OtherType(reactionType), 0)

\* the update that leaves the opposite column as it is
ReactionUpdateKeepOther(existingAction, reactionType) ==
    LET currentCount == OrZero(CountOf(existingAction, reactionType)) IN
    WithCount(existingAction, reactionType, IF currentCount > 0 THEN 0 ELSE 1)

\* the columns written to an existing reaction row
ReactionUpdate(existingAction, reactionType) ==
    LET currentCount == OrZero(CountOf(existingAction, reactionType)) IN
    WithCount(WithCount(existingAction, reactionType,
                        IF currentCount > 0 THEN 0 ELSE 1),
              OtherType(reactionType), 0)

\* the row inserted when the viewer has no reaction row
ReactionInsert(id, entryId, userId, reactionType) ==
    WithCount([id |-> id, entry_id |-> entryId, user_id |-> userId,
               love_count |-> NULL, hate_count |-> NULL], reactionType, 1)

(* ------------------------------ fetch --------------------------------- *)

NoAction == [id |-> NULL, entry_id |-> NULL, user_id |-> NoUser,
             love_count |-> NULL, hate_count |-> NULL]

ActionsOf(id) == {a \in rActions : a.entry_id = id}

\* the joined reaction row that entry_actions.find() returns: the select asks
\* for neither entries.userId nor entry_actions.user_id, so both sides of the
\* comparison are undefined and the first joined row matches; the order of
\* the joined rows is the store's choice
FirstActions ==
    {f \in [{e.id : e \in rEntries} -> {a.id : a \in rActions} \cup {NULL}] :
        \A id \in DOMAIN f :
            IF ActionsOf(id) = {} THEN f[id] = NULL
            ELSE f[id] \in {a.id : a \in ActionsOf(id)}}

UserReactionOf(userAction) ==
    IF userAction.love_count = 1 THEN "love"
    ELSE IF userAction.hate_count = 1 THEN "hate"
    ELSE "none"

CommentOf(c) ==
    [id |-> c.id, entry_id |-> c.entry_id, text |-> c.text,
     created_at |-> c.created_at, user_id |-> c.user_id]

\* (entriesData || []).map(...) over the rows ordered by created_at descending
Transformed(first) ==
    LET F(row) ==
        LET userAction == IF first[row.id] = NULL THEN NoAction
                          ELSE CHOOSE a \in rActions : a.id = first[row.id]
        IN [id |-> row.id, title |-> row.title, text |-> row.text,
            created_at |-> row.created_at, user_id |-> row.user_id,
            love_count |-> SumOf(ActionsOf(row.id), "love"),
            hate_count |-> SumOf(ActionsOf(row.id), "hate"),
            comments |-> MapSeq(SortDesc({c \in rComments : c.entry_id = row.id}),
                                CommentOf),
            userReaction |-> UserReactionOf(userAction)]
    IN MapSeq(SortDesc(rEntries), F)

(* --------------------------- invocations ------------------------------ *)

NoRow == [id |-> NULL, created_at |-> NULL]

\* an invocation: its arguments, its locals, where it is suspended (pc),
\* the answer in flight to it, and what it returned
NewOp(kind) ==
    [kind |-> kind, pc |-> "req",
     entryId |-> NULL, reactionType |-> "none", userId |-> NoUser,
     title |-> "", text |-> "", commentId |-> NULL,
     updates |-> NoUpdates,         \* the fields passed to updateEntry
     previousEntries |-> <<>>,      \* the rollback snapshot
     existingAction |-> NoAction,   \* the row read by toggleReaction
     rerr |-> FALSE,                \* the answer in flight is an error
     rows |-> <<>>,                 \* the answer to the fetch, transformed
     row |-> NoRow,                 \* the answer to an insert
     success |-> FALSE,             \* returned: success
     data |-> NULL,                 \* returned: id of data, NULL when null
     error |-> FALSE,               \* returned: error is not null
     pre |-> <<>>,                  \* history: the list right before the call
     preEntry |-> NoRow,            \* history: the target entry before the call
     concurrent |-> {}]             \* history: the invocations in flight at the call

InFlight(i) == ops[i].pc # "done"
Idle == \A i \in 1..Len(ops) : ~InFlight(i)
Done(i) == i \in 1..Len(ops) /\ ~InFlight(i)
CanInvoke == Len(ops) < MaxOps + 1

Invoke(op) ==
    ops' = Append(ops, [op EXCEPT !.pre = entries,
                        !.concurrent = {i \in 1..Len(ops) : InFlight(i)},
                        !.preEntry = IF op.entryId \in Ids(entries)
                                     THEN Find(entries, op.entryId) ELSE NoRow])

\* the invocation returns: its locals go out of scope
Return(i, success, data, err) ==
    [ops[i] EXCEPT !.pc = "done", !.success = success, !.data = data,
                   !.error = err,
                   !.previousEntries = <<>>, !.existingAction = NoAction,
                   !.rows = <<>>, !.row = NoRow, !.rerr = FALSE, !.pre = <<>>]

\* a success returned together with an error
ReturnSuccessWithError(i) == Return(i, TRUE, NULL, TRUE)

\* return { success: true, error: null }
ReturnSuccess(i) == Return(i, TRUE, NULL, FALSE)

\* a catch block that sends the request again
ReturnErrorRetry(i) == [ops[i] EXCEPT !.pc = "req", !.rerr = FALSE]

\* a catch block that returns the value of the success path
ReturnErrorAsData(i) == Return(i, TRUE, 0, FALSE)

\* return { success: false, error: { message } } and { data: null, error: { message } }
ReturnError(i) == Return(i, FALSE, NULL, TRUE)

\* return { data, error: null }
ReturnData(i, id) == Return(i, TRUE, id, FALSE)

\* a snapshot that keeps nothing
SnapshotEmpty(list) == <<>>

\* const previousEntries = [...entries]
Snapshot(list) == list

At(i, kind, pc) == i \in 1..Len(ops) /\ ops[i].kind = kind /\ ops[i].pc = pc

\* the store rejects the request
Reject(i, pc) ==
    /\ ops' = [ops EXCEPT ![i].pc = pc, ![i].rerr = TRUE]
    /\ UNCHANGED remote

(* fetchEntries *)

FetchInvoke ==
    /\ CanInvoke
    /\ loading' = TRUE
    /\ error' = FALSE
    /\ Invoke(NewOp("fetch"))
    /\ UNCHANGED <<entries, remote, table, card>>

FetchRemote(i) ==
    /\ At(i, "fetch", "req")
    /\ \/ /\ \E first \in FirstActions :
                ops' = [ops EXCEPT ![i].pc = "resp", ![i].rows = Transformed(first)]
          /\ UNCHANGED remote
       \/ Reject(i, "resp")
    /\ UNCHANGED <<entries, loading, error, table, card>>

\* setLoading(false) placed at the end of the try block: skipped on a throw
LoadingAtEndOfTry(i) == ops[i].rerr

\* finally { setLoading(false) }
LoadingFinally(i) == FALSE

FetchResolve(i) ==
    /\ At(i, "fetch", "resp")
    /\ IF ops[i].rerr
       THEN /\ error' = TRUE
            /\ ops' = [ops EXCEPT ![i] = ReturnError(i)]
            /\ UNCHANGED entries
       ELSE /\ entries' = ops[i].rows
            /\ ops' = [ops EXCEPT ![i] = ReturnSuccess(i)]
            /\ UNCHANGED error
    /\ loading' = LoadingFinally(i)
    /\ UNCHANGED <<remote, table, card>>

(* toggleReaction *)

ToggleInvoke(entryId, reactionType, userId) ==
    /\ CanInvoke
    /\ entries' = OptimisticToggle(entries, entryId, reactionType)
    /\ Invoke([NewOp("toggle") EXCEPT !.entryId = entryId,
                  !.reactionType = reactionType, !.userId = userId,
                  !.previousEntries = Snapshot(entries)])
    /\ UNCHANGED <<loading, error, remote, table, card>>

\* select("*").eq(entry_id).eq(user_id).maybeSingle(): an error when more
\* than one row matches
ToggleReadRemote(i) ==
    /\ At(i, "toggle", "req")
    /\ LET found == {a \in rActions : a.entry_id = ops[i].entryId
                                      /\ a.user_id = ops[i].userId}
       IN \/ /\ Cardinality(found) <= 1
             /\ ops' = [ops EXCEPT ![i].pc = "resp",
                           ![i].existingAction =
                               IF found = {} THEN NoAction
                               ELSE CHOOSE a \in found : TRUE]
             /\ UNCHANGED remote
          \/ Reject(i, "resp")
    /\ UNCHANGED <<entries, loading, error, table, card>>

\* a catch block that empties the list
RollbackEmpty(i) == <<>>

\* a catch block that restores nothing
RollbackNothing(i) == entries

\* the rollback of the catch block
Rollback(i) == ops[i].previousEntries

ToggleReadResolve(i) ==
    /\ At(i, "toggle", "resp")
    /\ IF ops[i].rerr
       THEN /\ entries' = Rollback(i)
            /\ ops' = [ops EXCEPT ![i] = ReturnError(i)]
       ELSE /\ ops' = [ops EXCEPT ![i].pc = "req2"]
            /\ UNCHANGED entries
    /\ UNCHANGED <<loading, error, remote, table, card>>

ToggleWriteRemote(i) ==
    /\ At(i, "toggle", "req2")
    /\ \/ /\ IF ops[i].existingAction # NoAction
             THEN /\ rActions' =
                        {IF a.id = ops[i].existingAction.id
                         THEN [a EXCEPT
                                 !.love_count = ReactionUpdate(ops[i].existingAction,
                                                    ops[i].reactionType).love_count,
                                 !.hate_count = ReactionUpdate(ops[i].existingAction,
                                                    ops[i].reactionType).hate_count]
                         ELSE a : a \in rActions}
                  /\ UNCHANGED rSeq
             ELSE \* the row references the entry: no insert for a deleted entry
                  /\ ops[i].entryId \in {e.id : e \in rEntries}
                  /\ rActions' = rActions \cup
                        {ReactionInsert(rSeq, ops[i].entryId, ops[i].userId,
                                        ops[i].reactionType)}
                  /\ rSeq' = rSeq + 1
          /\ ops' = [ops EXCEPT ![i].pc = "resp2"]
          /\ UNCHANGED <<rEntries, rComments>>
       \/ Reject(i, "resp2")
    /\ UNCHANGED <<entries, loading, error, table, card>>

ToggleWriteResolve(i) ==
    /\ At(i, "toggle", "resp2")
    /\ IF ops[i].rerr
       THEN /\ entries' = Rollback(i)
            /\ ops' = [ops EXCEPT ![i] = ReturnError(i)]
       ELSE /\ ops' = [ops EXCEPT ![i] = ReturnSuccess(i)]
            /\ UNCHANGED entries
    /\ UNCHANGED <<loading, error, remote, table, card>>

(* createEntry *)

CreateInvoke(title, text, userId) ==
    /\ CanInvoke
    /\ Invoke([NewOp("create") EXCEPT !.title = title, !.text = text,
                  !.userId = userId])
    /\ UNCHANGED <<entries, loading, error, remote, table, card>>

\* insert(...).select(...).single(): the store assigns id and created_at
CreateRemote(i) ==
    /\ At(i, "create", "req")
    /\ \/ /\ rEntries' = rEntries \cup
                {[id |-> rSeq, title |-> ops[i].title, text |-> ops[i].text,
                  created_at |-> rSeq, user_id |-> ops[i].userId]}
          /\ rSeq' = rSeq + 1
          /\ ops' = [ops EXCEPT ![i].pc = "resp",
                        ![i].row = [id |-> rSeq, created_at |-> rSeq]]
          /\ UNCHANGED <<rActions, rComments>>
       \/ Reject(i, "resp")
    /\ UNCHANGED <<entries, loading, error, table, card>>

\* newEntry, built from the returned row
NewEntry(op) ==
    [id |-> op.row.id, title |-> op.title, text |-> op.text,
     created_at |-> op.row.created_at, user_id |-> op.userId,
     love_count |-> 0, hate_count |-> 0, comments |-> <<>>,
     userReaction |-> "none"]

\* the new entry put last
PrependLast(newEntry, prev) == prev \o <<newEntry>>

\* setEntries(prev => [newEntry, ...prev])
Prepend(newEntry, prev) == <<newEntry>> \o prev

CreateResolve(i) ==
    /\ At(i, "create", "resp")
    /\ IF ops[i].rerr
       THEN /\ ops' = [ops EXCEPT ![i] = ReturnError(i)]
            /\ UNCHANGED entries
       ELSE /\ entries' = Prepend(NewEntry(ops[i]), entries)
            /\ ops' = [ops EXCEPT ![i] = ReturnData(i, ops[i].row.id)]
    /\ UNCHANGED <<loading, error, remote, table, card>>

(* updateEntry *)

\* the merge that takes nothing from the updates
MergeNothing(entry, updates) == entry

\* { ...entry, ...updates }, and the columns that update(updates) writes
Merge(entry, updates) ==
    [entry EXCEPT
        !.title = IF updates.title = Undefined THEN @ ELSE updates.title,
        !.text = IF updates.text = Undefined THEN @ ELSE updates.text]

\* the updated entry rebuilt without the comments it holds
WithUpdatesNoComments(prev, id, updates) ==
    LET F(e) == IF e.id = id THEN [Merge(e, updates) EXCEPT !.comments = <<>>] ELSE e
    IN MapSeq(prev, F)

\* the updates merged into every entry
WithUpdatesAll(prev, id, updates) ==
    LET F(e) == Merge(e, updates)
    IN MapSeq(prev, F)

\* prev.map(entry => entry.id === id ? { ...entry, ...updates } : entry)
WithUpdates(prev, id, updates) ==
    LET F(e) == IF e.id = id THEN Merge(e, updates) ELSE e
    IN MapSeq(prev, F)

UpdateInvoke(id, updates) ==
    /\ CanInvoke
    /\ Invoke([NewOp("update") EXCEPT !.entryId = id, !.updates = updates])
    /\ UNCHANGED <<entries, loading, error, remote, table, card>>

\* update(updates).eq("id", id).select(...).single(): the row as written is
\* the answer; without a row of that id single() answers with an error
UpdateRemote(i) ==
    /\ At(i, "update", "req")
    /\ \/ /\ ops[i].entryId \in {e.id : e \in rEntries}
          /\ rEntries' = {IF e.id = ops[i].entryId THEN Merge(e, ops[i].updates)
                          ELSE e : e \in rEntries}
          /\ ops' = [ops EXCEPT ![i].pc = "resp",
                        ![i].row = Merge(CHOOSE e \in rEntries : e.id = ops[i].entryId,
                                         ops[i].updates)]
          /\ UNCHANGED <<rActions, rComments, rSeq>>
       \/ Reject(i, "resp")
    /\ UNCHANGED <<entries, loading, error, table, card>>

UpdateResolve(i) ==
    /\ At(i, "update", "resp")
    /\ IF ops[i].rerr
       THEN /\ ops' = [ops EXCEPT ![i] = ReturnError(i)]
            /\ UNCHANGED entries
       ELSE /\ entries' = WithUpdates(entries, ops[i].entryId, ops[i].updates)
            /\ ops' = [ops EXCEPT ![i] = ReturnData(i, ops[i].row.id)]
    /\ UNCHANGED <<loading, error, remote, table, card>>

(* deleteEntry *)

\* the removal of the first entry, whatever its id
WithoutFirst(prev, id) == IF prev = <<>> THEN prev ELSE Tail(prev)

\* the filter with its test inverted
WithoutEntryInverted(prev, id) ==
    LET P(e) == e.id = id IN FilterSeq(prev, P)

\* prev.filter(e => e.id !== id)
WithoutEntry(prev, id) ==
    LET P(e) == e.id # id IN FilterSeq(prev, P)

DeleteInvoke(id) ==
    /\ CanInvoke
    /\ entries' = WithoutEntry(entries, id)
    /\ Invoke([NewOp("delete") EXCEPT !.entryId = id, !.previousEntries = Snapshot(entries)])
    /\ UNCHANGED <<loading, error, remote, table, card>>

\* delete().eq("id", id): the rows that reference the entry go with it
DeleteRemote(i) ==
    /\ At(i, "delete", "req")
    /\ \/ /\ rEntries' = {e \in rEntries : e.id # ops[i].entryId}
          /\ rActions' = {a \in rActions : a.entry_id # ops[i].entryId}
          /\ rComments' = {c \in rComments : c.entry_id # ops[i].entryId}
          /\ ops' = [ops EXCEPT ![i].pc = "resp"]
          /\ UNCHANGED rSeq
       \/ Reject(i, "resp")
    /\ UNCHANGED <<entries, loading, error, table, card>>

DeleteResolve(i) ==
    /\ At(i, "delete", "resp")
    /\ IF ops[i].rerr
       THEN /\ entries' = Rollback(i)
            /\ ops' = [ops EXCEPT ![i] = ReturnError(i)]
       ELSE /\ ops' = [ops EXCEPT ![i] = ReturnSuccess(i)]
            /\ UNCHANGED entries
    /\ UNCHANGED <<loading, error, remote, table, card>>

(* addComment *)

AddCommentInvoke(entryId, text, userId) ==
    /\ CanInvoke
    /\ Invoke([NewOp("addComment") EXCEPT !.entryId = entryId, !.text = text,
                  !.userId = userId])
    /\ UNCHANGED <<entries, loading, error, remote, table, card>>

\* insert(...).select(...).single(): the comment references its entry
AddCommentRemote(i) ==
    /\ At(i, "addComment", "req")
    /\ \/ /\ ops[i].entryId \in {e.id : e \in rEntries}
          /\ rComments' = rComments \cup
                {[id |-> rSeq, entry_id |-> ops[i].entryId, text |-> ops[i].text,
                  created_at |-> rSeq, user_id |-> ops[i].userId]}
          /\ rSeq' = rSeq + 1
          /\ ops' = [ops EXCEPT ![i].pc = "resp",
                        ![i].row = [id |-> rSeq, created_at |-> rSeq]]
          /\ UNCHANGED <<rEntries, rActions>>
       \/ Reject(i, "resp")
    /\ UNCHANGED <<entries, loading, error, table, card>>

NewComment(op) ==
    [id |-> op.row.id, entry_id |-> op.entryId, text |-> op.text,
     created_at |-> op.row.created_at, user_id |-> op.userId]

\* the new comment put in every entry's list
WithCommentEverywhere(prev, entryId, newComment) ==
    LET F(e) == [e EXCEPT !.comments = <<newComment>> \o e.comments]
    IN MapSeq(prev, F)

\* the new comment put after the others
WithCommentLast(prev, entryId, newComment) ==
    LET F(e) == IF e.id = entryId
                THEN [e EXCEPT !.comments = e.comments \o <<newComment>>]
                ELSE e
    IN MapSeq(prev, F)

\* prev.map(entry => entry.id === entryId
\*                   ? {...entry, comments: [newComment, ...entry.comments]} : entry)
WithComment(prev, entryId, newComment) ==
    LET F(e) == IF e.id = entryId
                THEN [e EXCEPT !.comments = <<newComment>> \o e.comments]
                ELSE e
    IN MapSeq(prev, F)

AddCommentResolve(i) ==
    /\ At(i, "addComment", "resp")
    /\ IF ops[i].rerr
       THEN /\ ops' = [ops EXCEPT ![i] = ReturnError(i)]
            /\ UNCHANGED entries
       ELSE /\ entries' = WithComment(entries, ops[i].entryId, NewComment(ops[i]))
            /\ ops' = [ops EXCEPT ![i] = ReturnData(i, ops[i].row.id)]
    /\ UNCHANGED <<loading, error, remote, table, card>>

(* deleteComment *)

\* no optimistic removal: the comment stays until the store has answered
WithoutCommentKept(prev, entryId, commentId) == prev

\* prev.map(entry => entry.id === entryId
\*                   ? {...entry, comments: entry.comments.filter(...)} : entry)
WithoutComment(prev, entryId, commentId) ==
    LET P(c) == c.id # commentId
        F(e) == IF e.id = entryId
                THEN [e EXCEPT !.comments = FilterSeq(e.comments, P)]
                ELSE e
    IN MapSeq(prev, F)

DeleteCommentInvoke(entryId, commentId) ==
    /\ CanInvoke
    /\ entries' = WithoutComment(entries, entryId, commentId)
    /\ Invoke([NewOp("deleteComment") EXCEPT !.entryId = entryId,
                  !.commentId = commentId, !.previousEntries = Snapshot(entries)])
    /\ UNCHANGED <<loading, error, remote, table, card>>

DeleteCommentRemote(i) ==
    /\ At(i, "deleteComment", "req")
    /\ \/ /\ rComments' = {c \in rComments : c.id # ops[i].commentId}
          /\ ops' = [ops EXCEPT ![i].pc = "resp"]
          /\ UNCHANGED <<rEntries, rActions, rSeq>>
       \/ Reject(i, "resp")
    /\ UNCHANGED <<entries, loading, error, table, card>>

DeleteCommentResolve(i) ==
    /\ At(i, "deleteComment", "resp")
    /\ IF ops[i].rerr
       THEN /\ entries' = Rollback(i)
            /\ ops' = [ops EXCEPT ![i] = ReturnError(i)]
       ELSE /\ ops' = [ops EXCEPT ![i] = ReturnSuccess(i)]
            /\ UNCHANGED entries
    /\ UNCHANGED <<loading, error, remote, table, card>>

(* the comment list component *)

\* the session's user id passed to the component: signed in, or null
SessionUsers == {Viewer, NoUser}

\* what the comment box may hold: a text, or blanks only
TypedTexts == {"c", " "}

\* a trim that keeps the blanks
TrimKeepsBlanks(t) == t

\* commentText.trim()
Trim(t) == IF t = " " THEN "" ELSE t

\* an ownership test that lets every comment pass
IsOwnerAlways(userId, comment) == TRUE

\* const isOwner = userId === comment.user_id
IsOwner(userId, comment) == userId = comment.user_id

\* [...entry.comments].sort((a, b) => a.created_at - b.created_at)
RECURSIVE SortAsc(_)
SortAsc(S) ==
    IF S = {} THEN <<>>
    ELSE LET m == CHOOSE x \in S : \A y \in S : x.created_at <= y.created_at
         IN <<m>> \o SortAsc(S \ {m})

sortedComments(entry) ==
    SortAsc({entry.comments[k] : k \in 1..Len(entry.comments)})

\* the Delete button of a rendered comment, shown to its owner, is clicked and
\* the confirmation accepted: onDeleteComment(entry.id, comment.id)
handleDeleteComment(userId, entryId, commentId) ==
    /\ CanInvoke
    /\ entryId \in Ids(entries)
    /\ \E k \in 1..Len(sortedComments(Find(entries, entryId))) :
          LET comment == sortedComments(Find(entries, entryId))[k]
          IN comment.id = commentId /\ IsOwner(userId, comment)
    /\ entries' = WithoutComment(entries, entryId, commentId)
    /\ Invoke([NewOp("deleteComment") EXCEPT !.entryId = entryId,
                  !.commentId = commentId, !.previousEntries = Snapshot(entries),
                  !.userId = userId])
    /\ UNCHANGED <<loading, error, remote, table, card>>

\* the comment box is submitted without a reply target:
\* onAddComment(entry.id, commentText, userId)
handleAddComment(userId, entryId, commentText) ==
    /\ Trim(commentText) # ""
    /\ userId # NoUser
    /\ entryId \in Ids(entries)
    /\ AddCommentInvoke(entryId, commentText, userId)

(* the reaction buttons of an entry card *)

\* isReacting !== null: set when the component calls onToggleReaction, cleared
\* when the call has returned
isReacting(entryId) ==
    \E i \in 1..Len(ops) :
        ops[i].kind = "toggle" /\ ops[i].entryId = entryId /\ InFlight(i)

\* a reaction button of a rendered entry, enabled, is clicked:
\* onToggleReaction(entry.id, type, userId)
handleReaction(userId, entryId, type) ==
    /\ entryId \in Ids(entries)
    /\ ~isReacting(entryId)
    /\ userId # NoUser
    /\ ToggleInvoke(entryId, type, userId)

(* the entry form of the page *)

\* what the title box may hold: nothing, blanks only, or a title
TypedTitles == {"", " ", "T"}

\* the form is submitted: createEntry({ user_id: user.id, title: title.trim(), ... })
handleCreateEntry(user, title) ==
    /\ Trim(title) # ""
    /\ user # NoUser
    /\ CreateInvoke(Trim(title), "c", user)

(* the card of entry 1: edit mode *)

\* what the title box of the edit view may hold
EditTitles == {"A", "B"}

\* the truth of result.success in handleUpdate: createEntry, updateEntry and
\* addComment return { data, error }, an object without that key
resultSuccess(op) == op.kind \notin {"create", "update", "addComment"} /\ op.success

\* the card is rendered for its owner, who sees the Edit button
CardShown(userId) ==
    /\ 1 \in Ids(entries)
    /\ userId = Find(entries, 1).user_id

\* "Edit" / "Close Edit View": setIsEditing(!isEditing)
clickEdit(userId) ==
    /\ CardShown(userId)
    /\ isEditing' = ~isEditing
    /\ UNCHANGED <<engine, table, isSavingEdit, editCall>>

\* "Save Changes", enabled, is clicked: setIsSavingEdit(true) and
\* onUpdateEntry(entry.id, { title: editTitle, text: editText })
handleUpdate(userId, editTitle, editText) ==
    /\ CardShown(userId)
    /\ isEditing
    /\ ~isSavingEdit
    /\ CanInvoke
    /\ isSavingEdit' = TRUE
    /\ editCall' = Len(ops) + 1
    /\ Invoke([NewOp("update") EXCEPT !.entryId = 1,
                  !.updates = [title |-> editTitle, text |-> editText]])
    /\ UNCHANGED <<entries, loading, error, remote, table, isEditing>>

\* the call has returned and handleUpdate goes on after its await
handleUpdateResume ==
    /\ editCall # NULL
    /\ Done(editCall)
    /\ LET result == ops[editCall]
       IN IF result.error
          THEN UNCHANGED isEditing
          ELSE IF resultSuccess(result)
          THEN isEditing' = FALSE
          ELSE UNCHANGED isEditing
    /\ isSavingEdit' = FALSE
    /\ editCall' = NULL
    /\ UNCHANGED <<engine, table>>

(* the toggle transition on its own *)

TableEntries ==
    {[id |-> 1, love_count |-> l, hate_count |-> h, userReaction |-> u] :
        l \in 0..MaxCount, h \in 0..MaxCount, u \in UserReactions}

TableApply(reactionType) ==
    /\ tType = "none"
    /\ tType' = reactionType
    /\ tOut' = Head(OptimisticToggle(<<tEntry>>, tEntry.id, reactionType))
    /\ UNCHANGED <<tEntry, engine, card>>

(* --------------------------- specification ---------------------------- *)

Row(id, user) == [id |-> id, title |-> "T", text |-> "c", created_at |-> id,
                  user_id |-> user]

Action(id, entryId, user, t) ==
    WithCount([id |-> id, entry_id |-> entryId, user_id |-> user,
               love_count |-> 0, hate_count |-> 0], t, 1)

\* the reaction rows on entry 1 when the hook mounts
InitialActions ==
    {v \cup o : v \in {{}, {Action(4, 1, Viewer, "love")}, {Action(4, 1, Viewer, "hate")}},
                o \in {{}, {Action(5, 1, OtherUser, "love")}}}

\* the card as it mounts: not in edit mode, no save under way
CardIdle ==
    /\ isEditing = FALSE
    /\ isSavingEdit = FALSE
    /\ editCall = NULL

TableIdle ==
    /\ tEntry = NoRow
    /\ tType = "none"
    /\ tOut = NoRow

\* the hook after its first render: an empty list, loading, and the fetch
\* of the mount effect under way
Init ==
    /\ entries = <<>>
    /\ loading = TRUE
    /\ error = FALSE
    /\ ops = <<NewOp("fetch")>>
    /\ rEntries = {Row(1, Viewer), Row(2, OtherUser)}
    /\ rActions \in InitialActions
    /\ rComments = {[id |-> 3, entry_id |-> 1, text |-> "c", created_at |-> 3,
                     user_id |-> Viewer]}
    /\ rSeq = FirstFreeId
    /\ TableIdle
    /\ CardIdle

MountFetch ==
    \/ \E i \in 1..Len(ops) : FetchRemote(i)
    \/ \E i \in 1..Len(ops) : FetchResolve(i)

ToggleSteps ==
    \/ \E i \in 1..Len(ops) : ToggleReadRemote(i)
    \/ \E i \in 1..Len(ops) : ToggleReadResolve(i)
    \/ \E i \in 1..Len(ops) : ToggleWriteRemote(i)
    \/ \E i \in 1..Len(ops) : ToggleWriteResolve(i)

CreateSteps ==
    \/ \E i \in 1..Len(ops) : CreateRemote(i)
    \/ \E i \in 1..Len(ops) : CreateResolve(i)

UpdateSteps ==
    \/ \E i \in 1..Len(ops) : UpdateRemote(i)
    \/ \E i \in 1..Len(ops) : UpdateResolve(i)

DeleteSteps ==
    \/ \E i \in 1..Len(ops) : DeleteRemote(i)
    \/ \E i \in 1..Len(ops) : DeleteResolve(i)

AddCommentSteps ==
    \/ \E i \in 1..Len(ops) : AddCommentRemote(i)
    \/ \E i \in 1..Len(ops) : AddCommentResolve(i)

DeleteCommentSteps ==
    \/ \E i \in 1..Len(ops) : DeleteCommentRemote(i)
    \/ \E i \in 1..Len(ops) : DeleteCommentResolve(i)

\* the viewer reacts to entry 1, again and again
NextReact ==
    \/ MountFetch
    \/ \E t \in ReactionTypes : ToggleInvoke(1, t, Viewer)
    \/ ToggleSteps

SpecReact == Init /\ [][NextReact]_vars

\* entries are published and deleted
NextEntries ==
    \/ MountFetch
    \/ \E title \in Titles : CreateInvoke(title, "c", Viewer)
    \/ CreateSteps
    \/ \E id \in EntryIds : DeleteInvoke(id)
    \/ DeleteSteps

SpecEntries == Init /\ [][NextEntries]_vars

\* comments are added to and deleted from entry 1
NextComments ==
    \/ MountFetch
    \/ \E a \in CommentArgs : AddCommentInvoke(1, a[1], a[2])
    \/ AddCommentSteps
    \/ DeleteCommentInvoke(1, 3)
    \/ DeleteCommentSteps

SpecComments == Init /\ [][NextComments]_vars

\* operations on entry 1 while entry 2 is deleted or a new entry is published
NextCross ==
    \/ MountFetch
    \/ ToggleInvoke(1, "love", Viewer)
    \/ ToggleSteps
    \/ DeleteCommentInvoke(1, 3)
    \/ DeleteCommentSteps
    \/ AddCommentInvoke(2, "c", Viewer)
    \/ AddCommentSteps
    \/ DeleteInvoke(2)
    \/ DeleteSteps
    \/ CreateInvoke("T", "c", Viewer)
    \/ CreateSteps

\* the hook mounts on a store without reaction rows
InitCross == Init /\ rActions = {}

SpecCross == InitCross /\ [][NextCross]_vars

\* comments are added to and deleted from entry 1 of a store without reaction rows
SpecThread == InitCross /\ [][NextComments]_vars

\* entry 1 is edited while it is deleted, commented on, or another is published
NextEdit ==
    \/ MountFetch
    \/ \E u \in Updates : UpdateInvoke(1, u)
    \/ UpdateSteps
    \/ DeleteInvoke(1)
    \/ DeleteSteps
    \/ CreateInvoke("T", "c", Viewer)
    \/ CreateSteps
    \/ AddCommentInvoke(1, "c", Viewer)
    \/ AddCommentSteps

SpecEdit == InitCross /\ [][NextEdit]_vars

\* the list is fetched again while the viewer reacts and publishes
NextFetch ==
    \/ MountFetch
    \/ FetchInvoke
    \/ ToggleInvoke(1, "love", Viewer)
    \/ ToggleSteps
    \/ CreateInvoke("T", "c", Viewer)
    \/ CreateSteps

SpecFetch == Init /\ [][NextFetch]_vars

\* each of the six mutating operations, on entry 1 or a new entry
NextAll ==
    \/ MountFetch
    \/ CreateInvoke("T", "c", Viewer)
    \/ CreateSteps
    \/ UpdateInvoke(1, [title |-> "A", text |-> Undefined])
    \/ UpdateSteps
    \/ DeleteInvoke(1)
    \/ DeleteSteps
    \/ ToggleInvoke(1, "love", Viewer)
    \/ ToggleSteps
    \/ AddCommentInvoke(1, "c", Viewer)
    \/ AddCommentSteps
    \/ DeleteCommentInvoke(1, 3)
    \/ DeleteCommentSteps

SpecAll == InitCross /\ [][NextAll]_vars

\* the hook mounts on a store where entry 1 has a comment of each user
InitPage ==
    /\ entries = <<>>
    /\ loading = TRUE
    /\ error = FALSE
    /\ ops = <<NewOp("fetch")>>
    /\ rEntries = {Row(1, Viewer), Row(2, OtherUser)}
    /\ rActions = {}
    /\ rComments = {[id |-> 3, entry_id |-> 1, text |-> "c", created_at |-> 3,
                     user_id |-> Viewer],
                    [id |-> 4, entry_id |-> 1, text |-> "c", created_at |-> 4,
                     user_id |-> OtherUser]}
    /\ rSeq = FirstFreeId
    /\ TableIdle
    /\ CardIdle

\* the comment list of entry 1 is used, signed in or not
NextPage ==
    \/ MountFetch
    \/ \E u \in SessionUsers, c \in 3..FirstFreeId + MaxOps :
          handleDeleteComment(u, 1, c)
    \/ DeleteCommentSteps
    \/ \E u \in SessionUsers, t \in TypedTexts : handleAddComment(u, 1, t)
    \/ AddCommentSteps

SpecPage == InitPage /\ [][NextPage]_vars

\* the page is used, signed in or not: the entry form, and the comment box
\* and the reaction buttons of entry 1
NextForms ==
    \/ MountFetch
    \/ \E u \in SessionUsers, t \in TypedTitles : handleCreateEntry(u, t)
    \/ CreateSteps
    \/ \E u \in SessionUsers, t \in TypedTexts : handleAddComment(u, 1, t)
    \/ AddCommentSteps
    \/ \E u \in SessionUsers, r \in ReactionTypes : handleReaction(u, 1, r)
    \/ ToggleSteps

SpecForms == InitCross /\ [][NextForms]_vars

\* the owner of entry 1 edits it through its card
NextCard ==
    \/ MountFetch
    \/ clickEdit(Viewer)
    \/ \E t \in EditTitles : handleUpdate(Viewer, t, "c")
    \/ UpdateSteps
    \/ handleUpdateResume

SpecCard == InitCross /\ [][NextCard]_vars

\* the code after an await of invocation i runs
Resumes(i) ==
    \/ FetchResolve(i)
    \/ ToggleReadResolve(i)
    \/ ToggleWriteResolve(i)
    \/ DeleteResolve(i)
    \/ CreateResolve(i)

\* the viewer reacts to entry 1, deletes entry 2 and publishes
NextLive ==
    \/ MountFetch
    \/ ToggleInvoke(1, "love", Viewer)
    \/ ToggleSteps
    \/ DeleteInvoke(2)
    \/ DeleteSteps
    \/ CreateInvoke("T", "c", Viewer)
    \/ CreateSteps

\* a settled promise's continuation is run by the event loop; the store may
\* leave a request unanswered for ever
SpecLive ==
    /\ InitCross
    /\ [][NextLive]_vars
    /\ \A i \in 1..MaxOps + 1 : WF_vars(Resumes(i))

\* the toggle transition applied to every entry state up to MaxCount
InitTable ==
    /\ entries = <<>>
    /\ loading = TRUE
    /\ error = FALSE
    /\ ops = <<>>
    /\ rEntries = {}
    /\ rActions = {}
    /\ rComments = {}
    /\ rSeq = FirstFreeId
    /\ tEntry \in TableEntries
    /\ tType = "none"
    /\ tOut = tEntry
    /\ CardIdle

NextTable == \E t \in ReactionTypes : TableApply(t)

SpecTable == InitTable /\ [][NextTable]_vars

(* ------------------------------ claims -------------------------------- *)

IsToggle(i) == i \in 1..Len(ops) /\ ops[i].kind = "toggle"

\* C1: every entry of the local list has love_count >= 0 and hate_count >= 0,
\* whatever toggleReaction calls were made and however they resolved.
C1_CountsNonNegative ==
    \A k \in 1..Len(entries) :
        entries[k].love_count >= 0 /\ entries[k].hate_count >= 0

\* a reaction was taken back down to zero and another toggle was rolled back
C1_Witness ==
    \E i, j \in 1..Len(ops) :
        /\ IsToggle(i) /\ Done(i) /\ ops[i].success
        /\ ops[i].preEntry # NoRow
        /\ ops[i].preEntry.userReaction = ops[i].reactionType
        /\ IsToggle(j) /\ Done(j) /\ ~ops[j].success
        /\ \E k \in 1..Len(entries) :
               entries[k].id = ops[i].entryId /\ entries[k].love_count = 0

\* C2: no reaction row of the store has love_count = 1 and hate_count = 1,
\* after any interleaving of toggleReaction calls on either write path.
C2_ReactionExclusive ==
    \A a \in rActions : ~(a.love_count = 1 /\ a.hate_count = 1)

\* the viewer's hate row was switched to love by the update path
C2_Witness ==
    /\ \E i \in 1..Len(ops) :
          /\ IsToggle(i) /\ Done(i) /\ ops[i].success
          /\ ops[i].reactionType = "love"
          /\ ops[i].preEntry # NoRow
          /\ ops[i].preEntry.userReaction = "hate"
    /\ \E a \in rActions :
          a.id = 4 /\ a.user_id = Viewer /\ a.love_count = 1 /\ a.hate_count = 0

\* C3: the optimistic transition is the six-row table: none+k gives k with
\* kCount+1; k+k gives none with kCount-1 floored at 0; k+other gives other
\* with kCount-1 floored at 0 and otherCount+1.
C3_ToggleTable ==
    tType # "none" =>
        LET l == tEntry.love_count
            h == tEntry.hate_count
            dec(n) == IF n >= 1 THEN n - 1 ELSE 0
            expect ==
                CASE tEntry.userReaction = "none" /\ tType = "love" -> <<"love", l + 1, h>>
                  [] tEntry.userReaction = "none" /\ tType = "hate" -> <<"hate", l, h + 1>>
                  [] tEntry.userReaction = "love" /\ tType = "love" -> <<"none", dec(l), h>>
                  [] tEntry.userReaction = "hate" /\ tType = "hate" -> <<"none", l, dec(h)>>
                  [] tEntry.userReaction = "love" /\ tType = "hate" -> <<"hate", dec(l), h + 1>>
                  [] tEntry.userReaction = "hate" /\ tType = "love" -> <<"love", l + 1, dec(h)>>
        IN <<tOut.userReaction, tOut.love_count, tOut.hate_count>> = expect

\* Scenario C: love with loveCount 1, toggled to hate
C3_Witness ==
    /\ tEntry.userReaction = "love" /\ tEntry.love_count = 1 /\ tEntry.hate_count = 0
    /\ tType = "hate"
    /\ tOut.userReaction = "hate" /\ tOut.love_count = 0 /\ tOut.hate_count = 1

\* toggleReaction(id, "love", u) called on an entry whose viewer has no reaction
LoveFromNone(op) ==
    /\ op.kind = "toggle" /\ op.reactionType = "love"
    /\ op.preEntry # NoRow /\ op.preEntry.userReaction = "none"

Fails(i) == InFlight(i) /\ ops[i].rerr /\ ops'[i].pc = "done"

\* C4: toggling love on an entry with no viewer reaction and loveCount n shows
\* loveCount n+1 and viewerReaction love as soon as the call is made, and when
\* a remote call of it fails the entry is back at n and none once it returns.
C4_OptimisticThenRollback ==
    [][/\ (Len(ops') = Len(ops) + 1 /\ LoveFromNone(ops'[Len(ops')])) =>
            LET op == ops'[Len(ops')]
                e == Find(entries', op.entryId)
            IN e.love_count = op.preEntry.love_count + 1 /\ e.userReaction = "love"
       /\ \A i \in 1..Len(ops) :
            (LoveFromNone(ops[i]) /\ Fails(i)) =>
                LET e == Find(entries', ops[i].entryId)
                IN /\ ops[i].entryId \in Ids(entries')
                   /\ e.love_count = ops[i].preEntry.love_count
                   /\ e.userReaction = "none"
                   /\ ~ops'[i].success /\ ops'[i].error
      ]_vars

\* such a call has failed and the entry is back where it was
C4_Witness ==
    \E i \in 1..Len(ops) :
        /\ LoveFromNone(ops[i]) /\ Done(i) /\ ~ops[i].success
        /\ Find(entries, ops[i].entryId).userReaction = "none"
        /\ Find(entries, ops[i].entryId).love_count = ops[i].preEntry.love_count

\* invocations i and i+1 are toggleReaction(e, "love", u) twice in a row: each
\* called with nothing in flight, both returned success, nothing called since
TwiceInARow(i) ==
    /\ i + 1 = Len(ops)
    /\ IsToggle(i) /\ IsToggle(i + 1)
    /\ ops[i].reactionType = "love" /\ ops[i + 1].reactionType = "love"
    /\ ops[i].entryId = ops[i + 1].entryId
    /\ ops[i].preEntry # NoRow
    /\ ops[i].concurrent = {} /\ ops[i + 1].concurrent = {}
    /\ Done(i) /\ Done(i + 1)
    /\ ops[i].success /\ ops[i + 1].success

\* C5 as stated: two toggleReaction(e, "love", u) in a row leave e with
\* viewerReaction none and loveCount as before the first, from every state of e.
C5_AsStated ==
    \A i \in 1..Len(ops) :
        TwiceInARow(i) =>
            LET e == Find(entries, ops[i].entryId)
            IN e.userReaction = "none" /\ e.love_count = ops[i].preEntry.love_count

\* C5 amended: two toggleReaction(e, "love", u) in a row leave e with loveCount
\* as before the first call, and with viewerReaction none when e started at
\* none or hate; an entry that started at love is back at love.
C5_TwiceRestoresLoveCount ==
    \A i \in 1..Len(ops) :
        TwiceInARow(i) =>
            LET e == Find(entries, ops[i].entryId)
            IN /\ e.love_count = ops[i].preEntry.love_count
               /\ e.userReaction =
                    IF ops[i].preEntry.userReaction = "love" THEN "love" ELSE "none"

\* twice in a row from no reaction: none again, loveCount restored
C5_Witness ==
    \E i \in 1..Len(ops) :
        /\ TwiceInARow(i)
        /\ ops[i].preEntry.userReaction = "none"
        /\ Find(entries, ops[i].entryId).userReaction = "none"


\* C6: when the remote delete of deleteEntry(id) fails, the list once the call
\* has returned equals the list right before the call, and the call returns
\* success = false with an error.
C6_DeleteRollback ==
    [][\A i \in 1..Len(ops) :
          (ops[i].kind = "delete" /\ Fails(i)) =>
              /\ entries' = ops[i].pre
              /\ ~ops'[i].success /\ ops'[i].error
      ]_vars

\* a failed delete has put its entry back, over an entry published meanwhile
C6_Witness ==
    \E i, j \in 1..Len(ops) :
        /\ ops[i].kind = "delete" /\ Done(i) /\ ~ops[i].success /\ ops[i].error
        /\ ops[i].preEntry # NoRow
        /\ ops[i].entryId \in Ids(entries)
        /\ ops[j].kind = "create" /\ Done(j) /\ ops[j].data # NULL
        /\ i \in ops[j].concurrent
        /\ ops[j].data \notin Ids(entries)

\* what an invocation that has returned leaves of its own target, had it run
\* alone from the list it was called on
OwnOutcome(op) ==
    LET here == op.entryId \in Ids(entries)
        e == Find(entries, op.entryId)
        p == op.preEntry
    IN CASE op.kind = "toggle" ->
              here /\ e = IF op.success THEN ToggleEntry(p, op.reactionType) ELSE p
         [] op.kind = "deleteComment" ->
              here /\ e = IF op.success
                          THEN [p EXCEPT !.comments =
                                   LET P(c) == c.id # op.commentId
                                   IN SelectSeq(p.comments, P)]
                          ELSE p
         [] op.kind = "delete" ->
              IF op.success THEN ~here ELSE here /\ e = p
         [] op.kind = "addComment" ->
              here /\ IF op.error THEN e = p
                      ELSE /\ Len(e.comments) = Len(p.comments) + 1
                           /\ e.comments[1].id = op.data
                           /\ Tail(e.comments) = p.comments
                           /\ [e EXCEPT !.comments = p.comments] = p
         [] op.kind = "create" ->
              op.error \/ op.data \in Ids(entries)
         [] OTHER -> TRUE

\* every invocation has returned; those after the mount fetch were made once
\* the fetch had returned, on entries of the list, no two on the same entry
DifferentEntities ==
    /\ Idle
    /\ \A i \in 2..Len(ops) :
          /\ 1 \notin ops[i].concurrent
          /\ ops[i].kind # "create" => ops[i].preEntry # NoRow
          /\ \A j \in 2..Len(ops) :
                (i # j /\ ops[i].kind # "create" /\ ops[j].kind # "create")
                    => ops[i].entryId # ops[j].entryId

RolledBack(op) ==
    op.kind \in {"toggle", "delete", "deleteComment"} /\ ~op.success

C8_EmptyTitleRejected ==
    \A i \in 1..Len(ops) :
        (ops[i].kind = "create" /\ ops[i].title = "") =>
            /\ ops[i].pc = "done"
            /\ ops[i].data = NULL /\ ops[i].error

\* C9 as stated: addComment with empty text or a null userId returns
\* {data: null, error}, issues no remote insert and leaves the list unchanged.
C9_InvalidCommentRejected ==
    \A i \in 1..Len(ops) :
        (ops[i].kind = "addComment" /\ (ops[i].text = "" \/ ops[i].userId = NoUser)) =>
            /\ ops[i].pc = "done"
            /\ ops[i].data = NULL /\ ops[i].error

\* C10: when the insert of createEntry has succeeded, the call leaves the list
\* as the new entry followed by the list as it stood: the new entry first,
\* with the id and created_at of the store's answer, zero counts and no
\* comments, the entries before it kept in their order; one entry from none.
C10_CreatePrepends ==
    [][\A i \in 1..Len(ops) :
          (ops[i].kind = "create" /\ ops[i].pc = "resp" /\ ~ops[i].rerr
             /\ ops'[i].pc = "done") =>
              /\ Len(entries') = Len(entries) + 1
              /\ entries'[1].id = ops[i].row.id
              /\ entries'[1].created_at = ops[i].row.created_at
              /\ entries'[1].love_count = 0 /\ entries'[1].hate_count = 0
              /\ entries'[1].comments = <<>>
              /\ \A k \in 1..Len(entries) : entries'[k + 1] = entries[k]
              /\ ops'[i].data = ops[i].row.id /\ ~ops'[i].error
      ]_vars

\* a new entry stands before the two fetched ones
C10_Witness ==
    \E i \in 1..Len(ops) :
        /\ ops[i].kind = "create" /\ Done(i) /\ ops[i].data # NULL
        /\ Len(entries) = 3
        /\ entries[1].id = ops[i].data
        /\ entries[1].love_count = 0 /\ entries[1].comments = <<>>
        /\ entries[2].id = 2 /\ entries[3].id = 1

NonOptimistic == {"create", "update", "addComment"}

\* C11: a createEntry, updateEntry or addComment whose remote call fails
\* leaves the list as it is in each of its steps, from the call to the return,
\* and returns {data: null, error} with a message.
C11_FailedWriteLeavesList ==
    [][/\ (Len(ops') = Len(ops) + 1 /\ ops'[Len(ops')].kind \in NonOptimistic)
            => entries' = entries
       /\ \A i \in 1..Len(ops) :
            ops[i].kind \in NonOptimistic =>
                /\ (ops[i].pc = "req" /\ ops'[i].pc = "resp") => entries' = entries
                /\ Fails(i) =>
                      /\ entries' = entries
                      /\ ops'[i].data = NULL /\ ops'[i].error /\ ~ops'[i].success
      ]_vars

\* a failed updateEntry and a failed addComment on entry 1 have returned, and
\* the entry is as it was fetched
C11_Witness ==
    /\ Ids(entries) = {1, 2}
    /\ Find(entries, 1).title = "T" /\ Len(Find(entries, 1).comments) = 1
    /\ \A k \in {"update", "addComment"} :
          \E i \in 1..Len(ops) :
              /\ ops[i].kind = k /\ Done(i) /\ ops[i].error /\ ops[i].data = NULL
              /\ 1 \notin ops[i].concurrent

\* updateEntry(id, ...) called after the fetch, on an id that a deleteEntry
\* still in flight has taken out of the list
UpdateOfDeleted(i) ==
    /\ ops[i].kind = "update" /\ ops[i].preEntry = NoRow
    /\ 1 \notin ops[i].concurrent
    /\ \E j \in ops[i].concurrent :
          ops[j].kind = "delete" /\ ops[j].entryId = ops[i].entryId

\* C12 as stated: updateEntry called with an id that the list does not hold,
\* the entry having been deleted locally, returns an error, and the store
\* does not write the row for it.
C12_UpdateOfAbsentRejected ==
    \A i \in 1..Len(ops) :
        UpdateOfDeleted(i) =>
            /\ ops[i].pc = "resp" => ops[i].rerr
            /\ Done(i) => ops[i].error /\ ops[i].data = NULL

EditableFields(r) == <<r.title, r.text>>

\* the call of updateEntry i returns with the row that the store answered
UpdateCommits(i) ==
    /\ ops[i].kind = "update" /\ ops[i].pc = "resp" /\ ~ops[i].rerr
    /\ ops'[i].pc = "done"

\* two updateEntry calls on one entry of the list, the second made while the
\* first was in flight, both answered with success, nothing else under way
OverlappingUpdates(i, j) ==
    /\ Idle
    /\ ops[i].kind = "update" /\ ops[j].kind = "update"
    /\ ops[i].entryId = ops[j].entryId
    /\ i \in ops[j].concurrent
    /\ 1 \notin ops[i].concurrent
    /\ ops[i].preEntry # NoRow
    /\ ops[i].data # NULL /\ ops[j].data # NULL
    /\ ops[i].entryId \in Ids(entries)
    /\ ops[i].entryId \in {r.id : r \in rEntries}

\* C13 as stated: when updateEntry succeeds, title and text of the local entry
\* are then those of the row the store returned; and once two overlapping
\* updateEntry calls on one id have both succeeded, in whatever order their
\* answers came, title and text of the local entry are those of the remote row.
C13_LocalEqualsReturnedRow ==
    /\ [][\A i \in 1..Len(ops) :
            (UpdateCommits(i) /\ ops[i].entryId \in Ids(entries)) =>
                EditableFields(Find(entries', ops[i].entryId))
                    = EditableFields(ops[i].row)]_vars
    /\ [](\A i, j \in 1..Len(ops) :
            OverlappingUpdates(i, j) =>
                EditableFields(Find(entries, ops[i].entryId))
                    = EditableFields(CHOOSE r \in rEntries : r.id = ops[i].entryId))

CommentsOf(list, entryId) ==
    IF entryId \in Ids(list) THEN Find(list, entryId).comments ELSE <<>>

\* C14: addComment leaves the comment list of its entry as it is when it is
\* called and while the insert is with the store; when the insert has
\* succeeded, the step in which the call returns puts the new comment, with
\* the id and created_at of the store's answer, at index 0, the comments of
\* before behind it in their order.
C14_CommentPrependedAtCommit ==
    [][/\ (Len(ops') = Len(ops) + 1 /\ ops'[Len(ops')].kind = "addComment")
            => entries' = entries
       /\ \A i \in 1..Len(ops) :
            ops[i].kind = "addComment" =>
                /\ (ops[i].pc = "req" /\ ops'[i].pc = "resp") => entries' = entries
                /\ (ops[i].pc = "resp" /\ ~ops[i].rerr /\ ops'[i].pc = "done"
                      /\ ops[i].entryId \in Ids(entries)) =>
                      LET before == CommentsOf(entries, ops[i].entryId)
                          after == CommentsOf(entries', ops[i].entryId)
                      IN /\ Len(after) = Len(before) + 1
                         /\ after[1].id = ops[i].row.id
                         /\ after[1].created_at = ops[i].row.created_at
                         /\ after[1].text = ops[i].text
                         /\ Tail(after) = before
      ]_vars

\* a comment was added to entry 1 and stands before the fetched comment
C14_Witness ==
    \E i \in 1..Len(ops) :
        /\ ops[i].kind = "addComment" /\ Done(i) /\ ops[i].data # NULL
        /\ Len(CommentsOf(entries, 1)) = 2
        /\ CommentsOf(entries, 1)[1].id = ops[i].data
        /\ CommentsOf(entries, 1)[2].id = 3

\* C15: deleteComment(entryId, commentId) takes the comment out of the entry's
\* comment list in the step of the call, before the store answers; when the
\* remote delete fails, the list once the call has returned equals the list
\* right before the call, and the call returns success = false with an error.
C15_DeleteCommentRollback ==
    [][/\ (Len(ops') = Len(ops) + 1 /\ ops'[Len(ops')].kind = "deleteComment") =>
            LET op == ops'[Len(ops')]
            IN /\ \A k \in 1..Len(CommentsOf(entries', op.entryId)) :
                     CommentsOf(entries', op.entryId)[k].id # op.commentId
               /\ op.pc = "req"
       /\ \A i \in 1..Len(ops) :
            (ops[i].kind = "deleteComment" /\ Fails(i)) =>
                /\ entries' = ops[i].pre
                /\ ~ops'[i].success /\ ops'[i].error
      ]_vars

\* the fetched comment was taken out by a deleteComment that failed, and it
\* is back in the list of entry 1
C15_Witness ==
    \E i \in 1..Len(ops) :
        /\ ops[i].kind = "deleteComment" /\ Done(i)
        /\ ~ops[i].success /\ ops[i].error
        /\ ops[i].preEntry # NoRow /\ Len(ops[i].preEntry.comments) = 1
        /\ Len(CommentsOf(entries, 1)) >= 1
        /\ \E k \in 1..Len(CommentsOf(entries, 1)) : CommentsOf(entries, 1)[k].id = 3

IsFetch(i) == i \in 1..Len(ops) /\ ops[i].kind = "fetch"

\* the list is the remote rows, newest first, each with the sums of its
\* reaction rows
TransformedResult(list) ==
    /\ Len(list) = Cardinality(rEntries)
    /\ Ids(list) = {r.id : r \in rEntries}
    /\ \A k \in 1..Len(list) - 1 : list[k].created_at >= list[k + 1].created_at
    /\ \A k \in 1..Len(list) :
          /\ list[k].love_count = SumOf(ActionsOf(list[k].id), "love")
          /\ list[k].hate_count = SumOf(ActionsOf(list[k].id), "hate")

\* C16 as stated: the store's answer to a fetch is the remote rows in
\* descending created_at order with the counts summed from the joined reaction
\* rows; the step in which a successful fetch returns sets the list to exactly
\* that answer and the fetch error is null after it; the step in which a failed
\* fetch returns leaves the list as it is and sets the fetch error.
C16_FetchReplacesAtomically ==
    [][\A i \in 1..Len(ops) :
          IsFetch(i) =>
              /\ (ops[i].pc = "req" /\ ops'[i].pc = "resp" /\ ~ops'[i].rerr)
                    => TransformedResult(ops'[i].rows)
              /\ (ops[i].pc = "resp" /\ ops'[i].pc = "done") =>
                    IF ops[i].rerr
                    THEN entries' = entries /\ error'
                    ELSE entries' = ops[i].rows /\ ~error'
      ]_vars

\* C17 as stated: loading is true in every state in which a fetch is in
\* flight, two overlapping fetches that return at different times included.
C17_LoadingWhileFetching ==
    (\E i \in 1..Len(ops) : IsFetch(i) /\ InFlight(i)) => loading

\* the reaction that the viewer's own row of an entry records
ViewerRecord(entryId) ==
    LET mine == {a \in rActions : a.entry_id = entryId /\ a.user_id = Viewer}
    IN IF mine = {} THEN "none"
       ELSE LET a == CHOOSE x \in mine : TRUE
            IN IF a.love_count = 1 THEN "love"
               ELSE IF a.hate_count = 1 THEN "hate" ELSE "none"

\* C18 as stated: in the answer to a fetch every entry's userReaction is the
\* one of the viewer's own reaction row for that entry, love when its
\* love_count is 1, hate when its hate_count is 1, none without such a row,
\* whatever the rows of other users are.
C18_ViewerReactionFromOwnRecord ==
    [][\A i \in 1..Len(ops) :
          (IsFetch(i) /\ ops[i].pc = "req" /\ ops'[i].pc = "resp" /\ ~ops'[i].rerr) =>
              \A k \in 1..Len(ops'[i].rows) :
                  ops'[i].rows[k].userReaction = ViewerRecord(ops'[i].rows[k].id)
      ]_vars

\* toggleReaction i was called with nothing in flight, has returned success,
\* and nothing was called since
ToggledAlone(i) ==
    /\ IsToggle(i) /\ i = Len(ops)
    /\ ops[i].concurrent = {}
    /\ Done(i) /\ ops[i].success
    /\ ops[i].entryId \in Ids(entries)

\* C20 as stated: once a toggleReaction called with nothing else in flight has
\* succeeded, the entry's local love_count and hate_count are the sums over
\* its remote reaction rows and its local userReaction is the kind set in the
\* viewer's remote row, none when neither is set, from every list the call
\* can start on, a fetched one included.
C20_ToggleAgreesWithStore ==
    \A i \in 1..Len(ops) :
        ToggledAlone(i) =>
            LET e == Find(entries, ops[i].entryId)
            IN /\ e.love_count = SumOf(ActionsOf(e.id), "love")
               /\ e.hate_count = SumOf(ActionsOf(e.id), "hate")
               /\ e.userReaction = ViewerRecord(e.id)

Optimistic == {"delete", "deleteComment", "toggle"}

\* C19: whatever the store answered, a rejection included, a mutating
\* operation returns a result value: createEntry, updateEntry and addComment
\* return either data with a null error or null data with an error;
\* deleteEntry, deleteComment and toggleReaction return an error exactly when
\* success is false.
C19_ResultShape ==
    \A i \in 1..Len(ops) :
        /\ (Done(i) /\ ops[i].kind \in NonOptimistic) =>
              \/ ops[i].data # NULL /\ ~ops[i].error
              \/ ops[i].data = NULL /\ ops[i].error
        /\ (Done(i) /\ ops[i].kind \in Optimistic) =>
              (ops[i].error <=> ~ops[i].success)

\* an updateEntry has returned data and a toggleReaction has returned an error
C19_Witness ==
    \E i, j \in 1..Len(ops) :
        /\ ops[i].kind = "update" /\ Done(i) /\ ops[i].data # NULL /\ ~ops[i].error
        /\ ops[j].kind = "toggle" /\ Done(j) /\ ~ops[j].success /\ ops[j].error

\* C21: the comment list component calls deleteComment only for a comment
\* whose author is the signed-in user: never for a comment of another user,
\* and never when nobody is signed in.
C21_DeleteOnlyOwnComments ==
    [][(Len(ops') = Len(ops) + 1 /\ ops'[Len(ops')].kind = "deleteComment") =>
          LET op == ops'[Len(ops')]
              cs == CommentsOf(entries, op.entryId)
          IN /\ op.userId # NoUser
             /\ \E k \in 1..Len(cs) :
                   cs[k].id = op.commentId /\ cs[k].user_id = op.userId
      ]_vars

\* the viewer deleted their own comment and the other user's comment stays
C21_Witness ==
    \E i \in 1..Len(ops) :
        /\ ops[i].kind = "deleteComment" /\ Done(i) /\ ops[i].success
        /\ ops[i].userId = Viewer /\ ops[i].commentId = 3
        /\ Len(CommentsOf(entries, 1)) = 1
        /\ CommentsOf(entries, 1)[1].id = 4
        /\ CommentsOf(entries, 1)[1].user_id = OtherUser

\* C22 as stated: the comments rendered for an entry are in descending
\* created_at order, the newest first.
C22_DisplayedNewestFirst ==
    \A k \in 1..Len(entries) :
        LET shown == sortedComments(entries[k])
        IN \A n \in 1..Len(shown) - 1 : shown[n].created_at >= shown[n + 1].created_at

\* how far an invocation has come: before its first remote call, the call
\* answered, before its second remote call, that call answered, returned
Progress(pc) ==
    CASE pc = "req" -> 0 [] pc = "resp" -> 1 [] pc = "req2" -> 2
      [] pc = "resp2" -> 3 [] pc = "done" -> 4

\* C23: an invocation never goes back to a remote call it has made, so each
\* of its remote calls is issued at most once, and when a remote call has
\* failed its next step is its return: it issues no further call.
C23_NoRetry ==
    [][\A i \in 1..Len(ops) :
          ops'[i].pc # ops[i].pc =>
              /\ Progress(ops'[i].pc) > Progress(ops[i].pc)
              /\ ops[i].rerr => ops'[i].pc = "done"
      ]_vars

\* a deleteEntry has returned after its one failed call while the write of a
\* toggleReaction, its second call, has failed and is still to be handled
C23_Witness ==
    \E i, j \in 1..Len(ops) :
        /\ ops[i].kind = "delete" /\ Done(i) /\ ops[i].error
        /\ ops[j].kind = "toggle" /\ ops[j].pc = "resp2" /\ ops[j].rerr

\* C24: deleteEntry(id) takes the entry with that id out of the list in the
\* step of the call, before the store answers, the other entries kept as they
\* are and in their order; when the remote delete has succeeded the step in
\* which the call returns changes nothing and returns success = true.
C24_DeleteOptimisticThenNothing ==
    [][/\ (Len(ops') = Len(ops) + 1 /\ ops'[Len(ops')].kind = "delete") =>
            LET op == ops'[Len(ops')]
                Others(e) == e.id # op.entryId
            IN /\ op.pc = "req"
               /\ entries' = SelectSeq(entries, Others)
       /\ \A i \in 1..Len(ops) :
            (ops[i].kind = "delete" /\ ops[i].pc = "resp" /\ ~ops[i].rerr
               /\ ops'[i].pc = "done") =>
                /\ entries' = entries
                /\ ops'[i].success /\ ~ops'[i].error
      ]_vars

\* entry 2 was deleted from between a published entry and entry 1
C24_Witness ==
    \E i, j \in 1..Len(ops) :
        /\ ops[i].kind = "delete" /\ Done(i) /\ ops[i].success
        /\ ops[i].preEntry # NoRow /\ ops[i].entryId = 2
        /\ ops[j].kind = "create" /\ Done(j) /\ ops[j].data # NULL
        /\ j \notin ops[i].concurrent /\ j < i
        /\ Len(entries) = 2
        /\ entries[1].id = ops[j].data /\ entries[2].id = 1

\* an entry without the three fields of the reaction
BesidesReaction(e) ==
    [e EXCEPT !.love_count = 0, !.hate_count = 0, !.userReaction = "none"]

\* C25: the step in which toggleReaction(entryId, kind, userId) is called
\* changes love_count, hate_count and userReaction of the entry with that id
\* and nothing else: the list keeps its length and order, every other entry
\* and every other field of the target, its comments included, are as before;
\* without an entry of that id the list is unchanged.
C25_ToggleFrame ==
    [][(Len(ops') = Len(ops) + 1 /\ ops'[Len(ops')].kind = "toggle") =>
          LET op == ops'[Len(ops')]
          IN /\ Len(entries') = Len(entries)
             /\ \A k \in 1..Len(entries) :
                   IF entries[k].id = op.entryId
                   THEN BesidesReaction(entries'[k]) = BesidesReaction(entries[k])
                   ELSE entries'[k] = entries[k]
             /\ op.entryId \notin Ids(entries) => entries' = entries
      ]_vars

\* toggleReaction was called on entry 1 of the fetched list: entry 1 shows the
\* reaction and keeps its comment, entry 2 is as fetched
C25_Witness ==
    \E i \in 1..Len(ops) :
        /\ IsToggle(i) /\ ops[i].pc = "req" /\ i = Len(ops)
        /\ ops[i].preEntry # NoRow
        /\ Len(entries) = 2
        /\ entries[1].id = 2 /\ entries[1].love_count = 0
        /\ entries[1].userReaction = "none"
        /\ entries[2].id = 1 /\ entries[2].love_count = 1
        /\ entries[2].userReaction = "love"
        /\ Len(entries[2].comments) = 1

\* the store executes the read, or the write, of toggleReaction i
ReadExecuted(i) ==
    IsToggle(i) /\ ops[i].pc = "req" /\ ops'[i].pc = "resp" /\ ~ops'[i].rerr

WriteExecuted(i) ==
    IsToggle(i) /\ ops[i].pc = "req2" /\ ops'[i].pc = "resp2" /\ ~ops'[i].rerr

\* C26: the read of toggleReaction(entryId, kind, userId) answers with the
\* viewer's row for the entry, if there is one; the write to an existing row
\* sets the requested kind's count to 0 when the count read was above 0 and
\* to 1 otherwise, and the other kind's count to 0; without a row the write
\* inserts one row for the entry and the viewer with the requested kind's
\* count 1 and the other kind's count not set. No other row changes.
C26_RemoteToggle ==
    [][\A i \in 1..Len(ops) :
          /\ ReadExecuted(i) =>
                LET mine == {a \in rActions : a.entry_id = ops[i].entryId
                                              /\ a.user_id = ops[i].userId}
                IN /\ rActions' = rActions
                   /\ IF mine = {} THEN ops'[i].existingAction = NoAction
                      ELSE ops'[i].existingAction \in mine
          /\ WriteExecuted(i) =>
                LET read == ops[i].existingAction
                    kind == ops[i].reactionType
                    was == CountOf(read, kind)
                IN IF read # NoAction
                   THEN /\ {a.id : a \in rActions'} = {a.id : a \in rActions}
                        /\ \A a \in rActions : \A b \in rActions' :
                              a.id = b.id =>
                                IF a.id = read.id
                                THEN /\ CountOf(b, kind) =
                                          IF was # NULL /\ was > 0 THEN 0 ELSE 1
                                     /\ CountOf(b, OtherType(kind)) = 0
                                     /\ b.entry_id = a.entry_id
                                     /\ b.user_id = a.user_id
                                ELSE b = a
                   ELSE \E b \in rActions' :
                          /\ b \notin rActions
                          /\ rActions' = rActions \cup {b}
                          /\ b.entry_id = ops[i].entryId
                          /\ b.user_id = ops[i].userId
                          /\ CountOf(b, kind) = 1
                          /\ CountOf(b, OtherType(kind)) = NULL
      ]_vars

\* a row with love alone was inserted for the viewer, and a second call
\* found it and switched it to hate by an update
C26_Witness ==
    /\ \E a \in rActions :
          /\ a.id >= FirstFreeId /\ a.user_id = Viewer /\ a.entry_id = 1
          /\ a.love_count = 0 /\ a.hate_count = 1
    /\ \E i, j \in 1..Len(ops) :
          /\ i < j /\ IsToggle(i) /\ IsToggle(j)
          /\ ops[i].success /\ ops[j].success
          /\ ops[i].reactionType = "love" /\ ops[j].reactionType = "hate"

\* the store has answered the last remote call that invocation i makes
Answered(i) ==
    /\ i \in 1..Len(ops)
    /\ \/ ops[i].pc = "resp2"
       \/ ops[i].pc = "resp" /\ (ops[i].kind # "toggle" \/ ops[i].rerr)

\* C27: an invocation of a mutating operation applies its optimistic change,
\* if it has one, in the step of the call, and then awaits the store: none of
\* its steps before its return changes the list. The step in which it returns
\* is either a commit (the store has answered with success: an optimistic
\* operation changes nothing more, the call returns without an error) or a
\* rollback (the store has answered with a failure: an optimistic operation
\* restores the list of the call, a non-optimistic one changes nothing, the
\* call returns an error), never both. Once the store has answered its last
\* remote call, the invocation does return.
C27_Lifecycle ==
    /\ [][\A i \in 1..Len(ops) :
            (ops[i].kind # "fetch" /\ ops'[i] # ops[i]) =>
                IF ops'[i].pc # "done"
                THEN /\ entries' = entries
                     /\ ~ops[i].rerr
                ELSE /\ Answered(i)
                     /\ ops'[i].error = ops[i].rerr
                     /\ ops'[i].success = ~ops[i].rerr
                     /\ ops[i].kind \in Optimistic =>
                           entries' = IF ops[i].rerr THEN ops[i].pre ELSE entries
                     /\ (ops[i].kind \in NonOptimistic /\ ops[i].rerr) =>
                           entries' = entries
         ]_vars
    /\ \A i \in 1..MaxOps + 1 : Answered(i) ~> Done(i)

\* a toggleReaction was committed and a deleteEntry called after it was rolled
\* back: the list holds the reaction and entry 2 again
C27_Witness ==
    \E i, j \in 1..Len(ops) :
        /\ IsToggle(i) /\ Done(i) /\ ops[i].success /\ ops[i].preEntry # NoRow
        /\ ops[j].kind = "delete" /\ Done(j) /\ ops[j].error
        /\ ops[j].preEntry # NoRow /\ i < j
        /\ Ids(entries) = {1, 2}
        /\ Find(entries, 1).userReaction = "love"

\* toggleReaction a, then toggleReaction b on the same entry of the list while
\* a is in flight
SameEntryRace(a, b) ==
    /\ IsToggle(a) /\ IsToggle(b)
    /\ ops[a].entryId = ops[b].entryId
    /\ a \in ops[b].concurrent
    /\ ops[a].preEntry # NoRow

\* C28: with toggleReaction a and then b in flight on one entry, b answered
\* with success, the step in which a returns after a failure puts the entry
\* back as it was before a was called, b's optimistic change gone, and leaves
\* the store, which holds what b wrote, as it is.
C28_LaterRollbackOverwrites ==
    [][\A a, b \in 1..Len(ops) :
          (SameEntryRace(a, b) /\ Done(b) /\ ops[b].success /\ Fails(a)) =>
              /\ ops[a].entryId \in Ids(entries')
              /\ Find(entries', ops[a].entryId) = ops[a].preEntry
              /\ rActions' = rActions
      ]_vars

\* a (love) and b (hate) raced on entry 1 without a reaction: b's write
\* inserted the viewer's hate row, a failed, and the list shows entry 1
\* without a reaction
C28_Witness ==
    \E a, b \in 1..Len(ops) :
        /\ SameEntryRace(a, b)
        /\ Done(a) /\ ops[a].error /\ Done(b) /\ ops[b].success
        /\ ops[a].reactionType = "love" /\ ops[b].reactionType = "hate"
        /\ ops[a].preEntry.userReaction = "none"
        /\ Find(entries, 1) = ops[a].preEntry
        /\ \E r \in rActions :
              /\ r.id >= FirstFreeId /\ r.entry_id = 1 /\ r.user_id = Viewer
              /\ r.hate_count = 1

NewestFirst(list) ==
    \A k \in 1..Len(list) - 1 : list[k].created_at >= list[k + 1].created_at

\* C29 as stated: whenever no invocation is in flight, the list is in
\* descending created_at order, also after createEntry calls answered in
\* another order than the store ran them, and after rollbacks.
C29_EntriesNewestFirst ==
    Idle => NewestFirst(entries)

\* C30 as stated: in every state the comment list of each entry of the list
\* is in descending created_at order, also after two overlapping addComment
\* calls on one entry answered in the opposite order of their created_at.
C30_CommentsNewestFirst ==
    \A k \in 1..Len(entries) : NewestFirst(entries[k].comments)

\* the ids of the comments held in a list of entries
CommentIds(list) ==
    UNION {{list[k].comments[j].id : j \in 1..Len(list[k].comments)} :
              k \in 1..Len(list)}

\* C31: every comment in the local list is held by the entry whose id is the
\* comment's entry_id, and the step in which a successful addComment returns
\* brings a comment into the list only when the list holds an entry of the
\* call's entryId at that moment, and then under that entry.
C31_CommentsUnderTheirEntry ==
    /\ [](\A k \in 1..Len(entries) :
            \A j \in 1..Len(entries[k].comments) :
                entries[k].comments[j].entry_id = entries[k].id)
    /\ [][\A i \in 1..Len(ops) :
            (ops[i].kind = "addComment" /\ ops[i].pc = "resp" /\ ops'[i].pc = "done") =>
                /\ ops[i].entryId \notin Ids(entries) => entries' = entries
                /\ CommentIds(entries') \ CommentIds(entries) # {} =>
                      /\ ~ops[i].rerr
                      /\ ops[i].entryId \in Ids(entries)
                      /\ CommentsOf(entries', ops[i].entryId)[1].id = ops[i].row.id
                      /\ CommentsOf(entries', ops[i].entryId)[1].entry_id = ops[i].entryId
         ]_vars

\* a comment was added to entry 2 while entry 1 holds the fetched comment
C31_Witness ==
    \E i \in 1..Len(ops) :
        /\ ops[i].kind = "addComment" /\ Done(i) /\ ops[i].data # NULL
        /\ Ids(entries) = {1, 2}
        /\ Len(CommentsOf(entries, 2)) = 1
        /\ CommentsOf(entries, 2)[1].id = ops[i].data
        /\ CommentsOf(entries, 2)[1].entry_id = 2
        /\ Len(CommentsOf(entries, 1)) = 1

\* an addComment on entry 2 returned its comment while the list did not hold
\* entry 2: the comment is in no list
C31_WitnessAbsent ==
    \E i \in 1..Len(ops) :
        /\ ops[i].kind = "addComment" /\ Done(i) /\ ops[i].data # NULL
        /\ 2 \notin Ids(entries)
        /\ ops[i].data \notin CommentIds(entries)
        /\ entries # <<>>

\* what updateEntry's argument type cannot name
BesidesEditable(e) ==
    [id |-> e.id, created_at |-> e.created_at, user_id |-> e.user_id,
     love_count |-> e.love_count, hate_count |-> e.hate_count,
     userReaction |-> e.userReaction, comments |-> e.comments]

\* C32: the step in which a successful updateEntry(id, updates) returns
\* changes, in the list, only the fields that updates names, and only of the
\* entry with that id: a named field takes the value given, an unnamed field
\* keeps its value, the entry's id, created_at, counts, userReaction and
\* comments stay, and every other entry and the order of the list stay.
C32_UpdateFrame ==
    [][\A i \in 1..Len(ops) :
          (ops[i].kind = "update" /\ ops[i].pc = "resp" /\ ~ops[i].rerr
             /\ ops'[i].pc = "done") =>
              /\ Len(entries') = Len(entries)
              /\ \A k \in 1..Len(entries) :
                    IF entries[k].id # ops[i].entryId
                    THEN entries'[k] = entries[k]
                    ELSE /\ BesidesEditable(entries'[k]) = BesidesEditable(entries[k])
                         /\ entries'[k].title =
                               IF ops[i].updates.title = Undefined
                               THEN entries[k].title ELSE ops[i].updates.title
                         /\ entries'[k].text =
                               IF ops[i].updates.text = Undefined
                               THEN entries[k].text ELSE ops[i].updates.text
      ]_vars

\* an update of entry 1's title alone has returned with success: the entry
\* has the new title, its text and its comment of before, and entry 2 its title
C32_Witness ==
    \E i \in 1..Len(ops) :
        /\ ops[i].kind = "update" /\ Done(i) /\ ops[i].data = 1
        /\ ops[i].updates = [title |-> "A", text |-> Undefined]
        /\ Ids(entries) = {1, 2}
        /\ Find(entries, 1).title = "A"
        /\ Find(entries, 1).text = "c"
        /\ Len(Find(entries, 1).comments) = 1
        /\ Find(entries, 2).title = "T"

\* no id occurs twice in a sequence of records
DistinctIds(list) ==
    \A j, k \in 1..Len(list) : list[j].id = list[k].id => j = k

\* C33: in every reachable state no two entries of the list have the same id
\* and no entry's comment list holds two comments of the same id, whatever
\* the order in which a createEntry or addComment and a fetch are answered.
C33_NoDuplicateIds ==
    /\ DistinctIds(entries)
    /\ \A k \in 1..Len(entries) : DistinctIds(entries[k].comments)

\* C34: in every reachable state an entry whose userReaction is love has
\* love_count >= 1 and an entry whose userReaction is hate has hate_count >= 1,
\* so the count that the toggle transition takes one off is never 0 and
\* Math.max(0, ...) returns its argument.
C34_ReactionImpliesCount ==
    \A k \in 1..Len(entries) :
        \A t \in ReactionTypes :
            entries[k].userReaction = t =>
                /\ CountOf(entries[k], t) >= 1
                /\ Max0(CountOf(entries[k], t) - 1) = CountOf(entries[k], t) - 1

\* the viewer's love was put on entry 1 by a toggle that has returned, on
\* top of the love of another user
C34_Witness ==
    \E i \in 1..Len(ops) :
        /\ IsToggle(i) /\ Done(i) /\ ops[i].success
        /\ ops[i].reactionType = "love"
        /\ ops[i].preEntry # NoRow /\ ops[i].preEntry.userReaction = "none"
        /\ 1 \in Ids(entries)
        /\ Find(entries, 1).userReaction = "love"
        /\ Find(entries, 1).love_count = ops[i].preEntry.love_count + 1

\* C35: whatever the interleaving of the toggleReaction calls of one user on
\* one entry, the store holds at most one reaction row for that entry and
\* that user.
C35_OneRecordPerUser ==
    \A a, b \in rActions :
        (a.entry_id = b.entry_id /\ a.user_id = b.user_id) => a = b

\* the calls made after the mount fetch had succeeded are createEntry,
\* addComment and updateEntry calls on entries the list held, and all have
\* returned with success
AllCommitted ==
    /\ Idle
    /\ Len(ops) >= 3
    /\ ops[1].success
    /\ \A i \in 2..Len(ops) :
          /\ ops[i].kind \in NonOptimistic
          /\ 1 \notin ops[i].concurrent
          /\ ops[i].data # NULL
          /\ ops[i].kind # "create" => ops[i].preEntry # NoRow

\* C36: when createEntry, addComment and updateEntry calls, overlapping or
\* not, have all succeeded with no rollback and no fetch among them, then
\* whatever the order of the answers the list holds every created entry,
\* every added comment under its entry, and for every field named by an
\* update the value given by an update that named it.
C36_NoLostCommit ==
    AllCommitted =>
        \A i \in 2..Len(ops) :
            /\ ops[i].kind = "create" => ops[i].data \in Ids(entries)
            /\ ops[i].kind = "addComment" =>
                  \E k \in 1..Len(CommentsOf(entries, ops[i].entryId)) :
                      CommentsOf(entries, ops[i].entryId)[k].id = ops[i].data
            /\ ops[i].kind = "update" =>
                  /\ ops[i].entryId \in Ids(entries)
                  /\ ops[i].updates.title # Undefined =>
                        \E j \in 2..Len(ops) :
                            /\ ops[j].kind = "update" /\ ops[j].entryId = ops[i].entryId
                            /\ Find(entries, ops[i].entryId).title = ops[j].updates.title
                  /\ ops[i].updates.text # Undefined =>
                        \E j \in 2..Len(ops) :
                            /\ ops[j].kind = "update" /\ ops[j].entryId = ops[i].entryId
                            /\ Find(entries, ops[i].entryId).text = ops[j].updates.text

\* an updateEntry of entry 1's title and an addComment on entry 1 were in
\* flight together and both succeeded: the entry has the title and the comment
C36_Witness ==
    /\ AllCommitted
    /\ \E i, j \in 2..Len(ops) :
          /\ ops[i].kind = "update" /\ ops[j].kind = "addComment"
          /\ (i \in ops[j].concurrent \/ j \in ops[i].concurrent)
          /\ Find(entries, 1).title = ops[i].updates.title
          /\ CommentsOf(entries, 1)[1].id = ops[j].data

\* two createEntry calls were in flight together and the answer to the
\* second came first: both entries are in the list
C36_WitnessCreate ==
    /\ AllCommitted
    /\ \E i, j \in 2..Len(ops) :
          /\ ops[i].kind = "create" /\ ops[j].kind = "create"
          /\ i \in ops[j].concurrent
          /\ Len(entries) = 4
          /\ entries[1].id = ops[i].data /\ entries[2].id = ops[j].data

\* C37: once a deleteEntry(id) called after the mount fetch has returned
\* success and every other invocation has returned, the list holds no entry of
\* that id, also when an invocation made before the delete failed and rolled
\* back after it.
C37_DeletedStaysDeleted ==
    \A i \in 1..Len(ops) :
        (/\ Idle
         /\ ops[i].kind = "delete" /\ ops[i].success
         /\ 1 \notin ops[i].concurrent) =>
            ops[i].entryId \notin Ids(entries)

\* C38: the step in which a fetch returns, with the rows or with an error,
\* leaves loading false; so loading is false in every state in which a fetch
\* has returned and no fetch is in flight.
C38_LoadingFalseAfterFetch ==
    /\ [][\A i \in 1..Len(ops) :
            (IsFetch(i) /\ ops[i].pc = "resp" /\ ops'[i].pc = "done") => ~loading'
         ]_vars
    /\ []((/\ (\E i \in 1..Len(ops) : IsFetch(i) /\ Done(i))
            /\ (\A j \in 1..Len(ops) : IsFetch(j) => Done(j))) => ~loading)

\* two fetches overlapped, one failed and one succeeded, both have returned
\* and loading is false
C38_Witness ==
    /\ ~loading
    /\ \E i, j \in 1..Len(ops) :
          /\ IsFetch(i) /\ IsFetch(j) /\ i \in ops[j].concurrent
          /\ Done(i) /\ Done(j)
          /\ ops[i].error /\ ops[j].success
    /\ \A k \in 1..Len(ops) : IsFetch(k) => Done(k)

\* the invocation that a step adds, if it adds one
Called(kind) ==
    /\ Len(ops') = Len(ops) + 1
    /\ ops'[Len(ops')].kind = kind

\* C39: every createEntry that the page calls has a title with something
\* besides blanks and the id of a signed-in user, every addComment that the
\* comment list calls a text with something besides blanks and a user id,
\* every toggleReaction that the reaction buttons call a user id; and a step
\* that changes the store belongs to an invocation that such a call made.
C39_OnlyValidCallsReachEngine ==
    [][/\ Called("create") =>
            /\ ops'[Len(ops')].title \notin {"", " "}
            /\ ops'[Len(ops')].userId # NoUser
       /\ Called("addComment") =>
            /\ ops'[Len(ops')].text \notin {"", " "}
            /\ ops'[Len(ops')].userId # NoUser
       /\ Called("toggle") => ops'[Len(ops')].userId # NoUser
       /\ remote' # remote =>
            \E i \in 2..Len(ops) :
                /\ ops'[i].pc # ops[i].pc
                /\ ops[i].userId # NoUser
                /\ ops[i].kind = "create" => ops[i].title \notin {"", " "}
                /\ ops[i].kind = "addComment" => ops[i].text \notin {"", " "}
      ]_vars

\* the signed-in viewer has published an entry and commented through the
\* page, and both reached the store
C39_Witness ==
    \E i, j \in 1..Len(ops) :
        /\ ops[i].kind = "create" /\ Done(i) /\ ops[i].data # NULL
        /\ ops[i].title = "T" /\ ops[i].userId = Viewer
        /\ ops[j].kind = "addComment" /\ Done(j) /\ ops[j].data # NULL
        /\ ops[j].text = "c" /\ ops[j].userId = Viewer
        /\ \E r \in rEntries : r.id = ops[i].data
        /\ \E c \in rComments : c.id = ops[j].data

\* the signed-in viewer has reacted to entry 1 through its buttons, and the
\* store holds the viewer's row
C39_WitnessReaction ==
    \E i \in 1..Len(ops) :
        /\ ops[i].kind = "toggle" /\ Done(i) /\ ops[i].success
        /\ ops[i].userId = Viewer
        /\ \E a \in rActions : a.entry_id = 1 /\ a.user_id = Viewer

\* C40 as stated: when handleUpdate goes on after updateEntry has returned
\* without an error, the card leaves edit mode and isSavingEdit is false;
\* when updateEntry has returned an error, the card stays as it is, in edit
\* mode, with isSavingEdit false.
C40_CardLeavesEditModeOnSuccess ==
    [][(editCall # NULL /\ editCall' = NULL) =>
          /\ ~isSavingEdit'
          /\ IF ops[editCall].error
             THEN isEditing' = isEditing
             ELSE ~isEditing'
      ]_vars

====
